---- MODULE Spec2Model ----
(***************************************************************************)
(* A model of the targeted-long solver of hyperdrive-math                  *)
(* (crates/hyperdrive-math/src/long/targeted.rs).                          *)
(*                                                                         *)
(* One behaviour is one call of calculate_targeted_long_with_budget on a   *)
(* pool snapshot, followed by the opening of the returned long (as the     *)
(* repository's test does).  The pool's primitives (calculate_open_long,   *)
(* calculate_spot_price_after_long, solvency_after_long, the price         *)
(* derivative) are pure functions of the snapshot that live outside this   *)
(* file: each is a relation argument -> answer that is filled in when the  *)
(* solver first asks, and answers the same ever after.                     *)
(*                                                                         *)
(* Option and Result values are sets: {} is None / Err, {v} is Some(v) /   *)
(* Ok(v).                                                                  *)
(***************************************************************************)
EXTENDS Integers, Sequences, FiniteSets, TLC

\* Largest base amount (in units of the token's smallest unit) of the model.
MaxBase == 2
\* Largest bond amount of the model.
MaxBond == 1

\* fixed!(1e18): the FixedPoint scale, 10^18 in the code, 10^4 here.
ONE == 10000

Base == 0..MaxBase
Bond == 0..MaxBond

Some(v) == {v}
Unwrap(o) == CHOOSE v \in o : TRUE
OptionOf(S) == {{}} \cup {{v} : v \in S}

\* FixedPoint arithmetic: products and quotients are rounded down at scale ONE.
FixedMul(a, b) == (a * b) \div ONE
FixedDiv(a, b) == (a * ONE) \div b

\* The outcome of a call, or of a part of one.
Ok(v) == [kind |-> "Ok", value |-> v, reason |-> "none"]
Err(r) == [kind |-> "Err", value |-> 0, reason |-> r]
Panic(r) == [kind |-> "Panic", value |-> 0, reason |-> r]
Pending == [kind |-> "Pending", value |-> 0, reason |-> "none"]

\* The pool snapshot's scalars.
effective_share_reserves == 3
bond_reserves == 5
vault_share_price == ONE
annualized_position_duration == ONE

\* The inputs of a call.
TargetRates == {0, 1}
AllowableErrors == OptionOf({9})
MaxIterations == OptionOf({0, 1})
Budgets == {1, MaxBase + 1}

\* What the pool's primitives can answer.
TargetShareReserves == (effective_share_reserves - 1)..(effective_share_reserves + MaxBase)
TargetBondReserves == (bond_reserves - MaxBond)..bond_reserves
CurveFees == {0, 1}
Prices == {9990, 9999, ONE}
PriceDerivatives == {0, 45000}

VARIABLES
    pc,                          \* where the call is
    target_rate,                 \* input
    maybe_allowable_error,       \* input, an Option
    maybe_max_iterations,        \* input, an Option
    budget,                      \* input
    target_base_delta,           \* the one-shot estimate
    target_bond_delta,
    possible_target_base_delta,  \* the loop's candidate
    iterations,                  \* loop iterations begun
    result,                      \* what calculate_targeted_long returned
    budget_result,               \* what calculate_targeted_long_with_budget returned
    calculate_open_long,         \* the pool's answers so far: <<base, Option bond>>
    spot_price_after_long,       \* <<<<base, bond>>, Result price>>
    solvency_after_long,         \* <<<<base, bond>>, is_some>>
    price_after_long_derivative, \* <<base, Result derivative>>
    evaluated,                   \* the candidates whose rate was evaluated, in order
    open_long_calls,             \* calls of calculate_open_long by the solver
    derivative_calls,            \* calls of rate_after_long_derivative_negation
    applied,                     \* the pool after the returned long is opened
    path                         \* where the solver returned from

vars == <<pc, target_rate, maybe_allowable_error, maybe_max_iterations, budget,
          target_base_delta, target_bond_delta, possible_target_base_delta,
          iterations, result, budget_result, calculate_open_long,
          spot_price_after_long, solvency_after_long, price_after_long_derivative,
          evaluated, open_long_calls, derivative_calls, applied, path>>

\* The answers a primitive can give for arg: the one it gave before, or any.
Query(memo, arg, answers) ==
    IF \E p \in memo : p[1] = arg
    THEN {p[2] : p \in {q \in memo : q[1] = arg}}
    ELSE answers

Known(memo, arg) == \E p \in memo : p[1] = arg
Answer(memo, arg) == (CHOOSE p \in memo : p[1] = arg)[2]

Min(a, b) == IF a <= b THEN a ELSE b

\* fixed!(1e14): the default allowable error, 10^-4 of ONE.
DefaultAllowableError == ONE \div 10000
\* maybe_max_iterations.unwrap_or(7)
DefaultMaxIterations == 7

\* A default tolerance of 10^-3 instead of 10^-4.
allowable_error_loose ==
    IF maybe_allowable_error = {} THEN ONE \div 1000
    ELSE Unwrap(maybe_allowable_error)

allowable_error ==
    IF maybe_allowable_error = {} THEN DefaultAllowableError
    ELSE Unwrap(maybe_allowable_error)

\* An inclusive range, 0..=n, in place of 0..n.
max_iterations_inclusive ==
    IF maybe_max_iterations = {} THEN DefaultMaxIterations
    ELSE Unwrap(maybe_max_iterations) + 1

max_iterations ==
    IF maybe_max_iterations = {} THEN DefaultMaxIterations
    ELSE Unwrap(maybe_max_iterations)

\* The base and bond deltas that move the pool to the given reserves; fee is
\* open_long_curve_fees(base_delta).  A FixedPoint subtraction below zero panics.
trade_deltas_from_reserves(share_reserves, bond_reserves_target, fee) ==
    IF share_reserves < effective_share_reserves
    THEN [kind |-> "Panic", base |-> 0, bond |-> 0]
    ELSE IF bond_reserves < bond_reserves_target
            \/ bond_reserves - bond_reserves_target < fee
    THEN [kind |-> "Panic", base |-> 0, bond |-> 0]
    ELSE [kind |-> "Ok",
          base |-> FixedMul(share_reserves - effective_share_reserves, vault_share_price),
          bond |-> (bond_reserves - bond_reserves_target) - fee]

\* r = (1 - p) / (p t), p the result of calculate_spot_price_after_long.
rate_after_long(resulting_price) ==
    IF resulting_price = {} THEN Err("SpotPriceAfterLong")
    ELSE LET p == Unwrap(resulting_price) IN
         IF p > ONE THEN Panic("subtraction underflow")
         ELSE IF FixedMul(p, annualized_position_duration) = 0
         THEN Panic("division by zero")
         ELSE Ok(FixedDiv(ONE - p, FixedMul(p, annualized_position_duration)))

\* long_amount_derivative unwrapped in place of the early return.
rate_after_long_derivative_negation_unwrap(price, price_derivative) ==
    IF price = {} THEN Err("SpotPriceAfterLong")
    ELSE IF price_derivative = {} THEN Panic("unwrap on None")
    ELSE LET p == Unwrap(price)
             d == FixedMul(FixedMul(annualized_position_duration, p), p)
         IN  IF d = 0 THEN Panic("division by zero")
             ELSE Ok(FixedDiv(Unwrap(price_derivative), d))

\* -r' = p' / (t p p), p' the result of price_after_long_derivative, which fails
\* when long_amount_derivative is None.
rate_after_long_derivative_negation(price, price_derivative) ==
    IF price = {} THEN Err("SpotPriceAfterLong")
    ELSE IF price_derivative = {} THEN Err("UndefinedDerivative")
    ELSE LET p == Unwrap(price)
             d == FixedMul(FixedMul(annualized_position_duration, p), p)
         IN  IF d = 0 THEN Panic("division by zero")
             ELSE Ok(FixedDiv(Unwrap(price_derivative), d))

\* The overshoot guard left out.
Overshot_unguarded(target, resulting_rate) == FALSE

\* target_rate > resulting_rate
Overshot(target, resulting_rate) == target > resulting_rate

\* The solvency test left out.
StopHere_unchecked(solvent, rate_error) == rate_error < allowable_error

\* is_none() in place of is_some().
StopHere_insolvent(solvent, rate_error) == ~solvent /\ rate_error < allowable_error

\* solvency_after_long(..).is_some() && rate_error < allowable_error
StopHere(solvent, rate_error) == solvent /\ rate_error < allowable_error

\* loss > allowable_error.
ExcessiveLoss_strict(loss) == loss > allowable_error

\* loss >= allowable_error
ExcessiveLoss(loss) == loss >= allowable_error

\* The step subtracted, as for a derivative that is not negated.
NewtonUpdate_subtracting(candidate, loss, negative_loss_derivative) ==
    candidate - FixedDiv(loss, negative_loss_derivative)

\* possible_target_base_delta + loss / negative_loss_derivative
NewtonUpdate(candidate, loss, negative_loss_derivative) ==
    candidate + FixedDiv(loss, negative_loss_derivative)

\* The budget returned in place of an error.
ClampToBudget_masking(res, b) ==
    IF res.kind = "Ok" THEN Ok(Min(res.value, b)) ELSE Ok(b)

\* Ok(long_amount) => Ok(long_amount.min(budget)), Err(error) => Err(error)
ClampToBudget(res, b) ==
    IF res.kind = "Ok" THEN Ok(Min(res.value, b)) ELSE res

NotApplied == [opened |-> FALSE, amount |-> 0, solvent |-> FALSE, rate |-> Pending]

Init ==
    /\ pc = "Initial"
    /\ target_rate \in TargetRates
    /\ maybe_allowable_error \in AllowableErrors
    /\ maybe_max_iterations \in MaxIterations
    /\ budget \in Budgets
    /\ target_base_delta = 0
    /\ target_bond_delta = 0
    /\ possible_target_base_delta = 0
    /\ iterations = 0
    /\ result = Pending
    /\ budget_result = Pending
    /\ calculate_open_long = {}
    /\ spot_price_after_long = {}
    /\ solvency_after_long = {}
    /\ price_after_long_derivative = {}
    /\ evaluated = <<>>
    /\ open_long_calls = 0
    /\ derivative_calls = 0
    /\ applied = NotApplied
    /\ path = "none"

inputs == <<target_rate, maybe_allowable_error, maybe_max_iterations, budget>>

ReturnAt(where, r) == pc' = "Returned" /\ result' = r /\ path' = where

\* Lines 54-58: the reserve target estimator, then the trade delta translator.
Estimate ==
    /\ pc = "Initial"
    /\ \E s \in TargetShareReserves, b \in TargetBondReserves, fee \in CurveFees :
         LET d == trade_deltas_from_reserves(s, b, fee) IN
         IF d.kind = "Panic"
         THEN /\ ReturnAt("estimate", Panic("subtraction underflow"))
              /\ UNCHANGED <<target_base_delta, target_bond_delta>>
         ELSE /\ d.bond \in Bond
              /\ target_base_delta' = d.base
              /\ target_bond_delta' = d.bond
              /\ pc' = "CheckInitialGuess"
              /\ UNCHANGED <<result, path>>
    /\ UNCHANGED <<inputs, possible_target_base_delta, iterations, budget_result,
                   calculate_open_long, spot_price_after_long, solvency_after_long,
                   price_after_long_derivative, evaluated, open_long_calls,
                   derivative_calls, applied>>

\* Lines 60-81: the rate of the estimate, the overshoot guard, the shortcut.
CheckInitialGuess ==
    /\ pc = "CheckInitialGuess"
    /\ LET at == <<target_base_delta, target_bond_delta>> IN
       \E price \in Query(spot_price_after_long, at, OptionOf(Prices)) :
         LET resulting_rate == rate_after_long(price) IN
         /\ spot_price_after_long' = spot_price_after_long \cup {<<at, price>>}
         /\ IF resulting_rate.kind # "Ok"
            THEN /\ ReturnAt("initial", resulting_rate)
                 /\ UNCHANGED <<evaluated, solvency_after_long, possible_target_base_delta>>
            ELSE /\ evaluated' = Append(evaluated,
                        [base |-> target_base_delta, rate |-> resulting_rate.value])
                 /\ IF Overshot(target_rate, resulting_rate.value)
                    THEN /\ ReturnAt("initial", Err("Overshoot"))
                         /\ UNCHANGED <<solvency_after_long, possible_target_base_delta>>
                    ELSE \E solvent \in Query(solvency_after_long, at, BOOLEAN) :
                         /\ solvency_after_long' = solvency_after_long \cup {<<at, solvent>>}
                         /\ IF StopHere(solvent, resulting_rate.value - target_rate)
                            THEN /\ ReturnAt("initial", Ok(target_base_delta))
                                 /\ UNCHANGED possible_target_base_delta
                            ELSE /\ possible_target_base_delta' = target_base_delta
                                 /\ pc' = "Iterating"
                                 /\ UNCHANGED <<result, path>>
    /\ UNCHANGED <<inputs, target_base_delta, target_bond_delta, iterations,
                   budget_result, calculate_open_long, price_after_long_derivative,
                   open_long_calls, derivative_calls, applied>>

\* Lines 84-130: one iteration of the loop.
Iterate ==
    /\ pc = "Iterating"
    /\ iterations < max_iterations
    /\ iterations' = iterations + 1
    /\ open_long_calls' = open_long_calls + 1
    /\ \E bonds \in Query(calculate_open_long, possible_target_base_delta, OptionOf(Bond)) :
         /\ calculate_open_long' =
                calculate_open_long \cup {<<possible_target_base_delta, bonds>>}
         /\ IF bonds = {}
            THEN /\ ReturnAt("loop", Panic("unwrap on None"))
                 /\ UNCHANGED <<spot_price_after_long, solvency_after_long,
                                price_after_long_derivative, evaluated,
                                derivative_calls, possible_target_base_delta>>
            ELSE LET at == <<possible_target_base_delta, Unwrap(bonds)>> IN
                 \E price \in Query(spot_price_after_long, at, OptionOf(Prices)) :
                 LET resulting_rate == rate_after_long(price) IN
                 /\ spot_price_after_long' = spot_price_after_long \cup {<<at, price>>}
                 /\ IF resulting_rate.kind # "Ok"
                    THEN /\ ReturnAt("loop", resulting_rate)
                         /\ UNCHANGED <<solvency_after_long, price_after_long_derivative,
                                        evaluated, derivative_calls,
                                        possible_target_base_delta>>
                    ELSE /\ evaluated' = Append(evaluated,
                                [base |-> possible_target_base_delta,
                                 rate |-> resulting_rate.value])
                         /\ IF Overshot(target_rate, resulting_rate.value)
                            THEN /\ ReturnAt("loop", Err("Overshoot"))
                                 /\ UNCHANGED <<solvency_after_long,
                                                price_after_long_derivative,
                                                derivative_calls,
                                                possible_target_base_delta>>
                            ELSE LET loss == resulting_rate.value - target_rate IN
                                 \E solvent \in Query(solvency_after_long, at, BOOLEAN) :
                                 /\ solvency_after_long' =
                                        solvency_after_long \cup {<<at, solvent>>}
                                 /\ IF StopHere(solvent, loss)
                                    THEN /\ ReturnAt("loop", Ok(possible_target_base_delta))
                                         /\ UNCHANGED <<price_after_long_derivative,
                                                        derivative_calls,
                                                        possible_target_base_delta>>
                                    ELSE /\ derivative_calls' = derivative_calls + 1
                                         /\ \E pd \in Query(price_after_long_derivative,
                                                           possible_target_base_delta,
                                                           OptionOf(PriceDerivatives)) :
                                            LET d == rate_after_long_derivative_negation(price, pd) IN
                                            /\ price_after_long_derivative' =
                                                   price_after_long_derivative
                                                   \cup {<<possible_target_base_delta, pd>>}
                                            /\ IF d.kind # "Ok"
                                               THEN /\ ReturnAt("loop", d)
                                                    /\ UNCHANGED possible_target_base_delta
                                               ELSE IF d.value = 0
                                               THEN /\ ReturnAt("loop", Panic("division by zero"))
                                                    /\ UNCHANGED possible_target_base_delta
                                               ELSE /\ NewtonUpdate(possible_target_base_delta,
                                                                    loss, d.value) \in Base
                                                    /\ possible_target_base_delta' =
                                                           NewtonUpdate(possible_target_base_delta,
                                                                        loss, d.value)
                                                    /\ UNCHANGED <<pc, result, path>>
    /\ UNCHANGED <<inputs, target_base_delta, target_bond_delta, budget_result, applied>>

\* Lines 132-162: the final validation of the last candidate.
FinalValidation ==
    /\ pc = "Iterating"
    /\ iterations = max_iterations
    /\ \E bonds \in Query(calculate_open_long, possible_target_base_delta, OptionOf(Bond)) :
         /\ calculate_open_long' =
                calculate_open_long \cup {<<possible_target_base_delta, bonds>>}
         /\ IF bonds = {}
            THEN /\ ReturnAt("final", Panic("unwrap on None"))
                 /\ open_long_calls' = open_long_calls + 1
                 /\ UNCHANGED <<spot_price_after_long, solvency_after_long, evaluated>>
            ELSE LET at == <<possible_target_base_delta, Unwrap(bonds)>> IN
                 \E solvent \in Query(solvency_after_long, at, BOOLEAN) :
                 /\ solvency_after_long' = solvency_after_long \cup {<<at, solvent>>}
                 /\ IF ~solvent
                    THEN /\ ReturnAt("final", Err("Insolvent"))
                         /\ open_long_calls' = open_long_calls + 1
                         /\ UNCHANGED <<spot_price_after_long, evaluated>>
                    ELSE \E price \in Query(spot_price_after_long, at, OptionOf(Prices)) :
                         LET resulting_rate == rate_after_long(price) IN
                         /\ spot_price_after_long' = spot_price_after_long \cup {<<at, price>>}
                         /\ open_long_calls' = open_long_calls + 2
                         /\ IF resulting_rate.kind # "Ok"
                            THEN /\ ReturnAt("final", resulting_rate)
                                 /\ UNCHANGED evaluated
                            ELSE /\ evaluated' = Append(evaluated,
                                        [base |-> possible_target_base_delta,
                                         rate |-> resulting_rate.value])
                                 /\ IF Overshot(target_rate, resulting_rate.value)
                                    THEN ReturnAt("final", Err("Overshoot"))
                                    ELSE IF ExcessiveLoss(resulting_rate.value - target_rate)
                                    THEN ReturnAt("final", Err("ExcessiveLoss"))
                                    ELSE ReturnAt("final", Ok(possible_target_base_delta))
    /\ UNCHANGED <<inputs, target_base_delta, target_bond_delta,
                   possible_target_base_delta, iterations, budget_result,
                   price_after_long_derivative, derivative_calls, applied>>

\* Lines 27-36: calculate_targeted_long_with_budget, once the solver returned.
WithBudget ==
    /\ pc = "Returned"
    /\ budget_result' = ClampToBudget(result, budget)
    /\ pc' = "Done"
    /\ UNCHANGED <<inputs, target_base_delta, target_bond_delta,
                   possible_target_base_delta, iterations, result,
                   calculate_open_long, spot_price_after_long, solvency_after_long,
                   price_after_long_derivative, evaluated, open_long_calls,
                   derivative_calls, applied, path>>

\* Test lines 488-509: the caller opens the long of the returned amount; the
\* pool is then the one the primitives describe for that amount and its bonds.
OpenLong ==
    /\ pc = "Done"
    /\ budget_result.kind = "Ok"
    /\ pc' = "Applied"
    /\ LET amount == budget_result.value IN
       \E bonds \in Query(calculate_open_long, amount, OptionOf(Bond)) :
         /\ calculate_open_long' = calculate_open_long \cup {<<amount, bonds>>}
         /\ IF bonds = {}
            THEN /\ applied' = NotApplied
                 /\ UNCHANGED <<spot_price_after_long, solvency_after_long>>
            ELSE LET at == <<amount, Unwrap(bonds)>> IN
                 \E solvent \in Query(solvency_after_long, at, BOOLEAN),
                    price \in Query(spot_price_after_long, at, OptionOf(Prices)) :
                 /\ solvency_after_long' = solvency_after_long \cup {<<at, solvent>>}
                 /\ spot_price_after_long' = spot_price_after_long \cup {<<at, price>>}
                 /\ applied' = [opened |-> TRUE, amount |-> amount,
                                solvent |-> solvent, rate |-> rate_after_long(price)]
    /\ UNCHANGED <<inputs, target_base_delta, target_bond_delta,
                   possible_target_base_delta, iterations, result, budget_result,
                   price_after_long_derivative, evaluated, open_long_calls,
                   derivative_calls, path>>

Next ==
    \/ Estimate
    \/ CheckInitialGuess
    \/ Iterate
    \/ FinalValidation
    \/ WithBudget
    \/ OpenLong

Spec == Init /\ [][Next]_vars

TypeOK ==
    /\ pc \in {"Initial", "CheckInitialGuess", "Iterating", "Returned", "Done", "Applied"}
    /\ possible_target_base_delta \in Base
    /\ target_base_delta \in Base
    /\ target_bond_delta \in Bond
    /\ iterations \in 0..max_iterations

Returned == pc \in {"Returned", "Done", "Applied"}
LastEvaluated == evaluated[Len(evaluated)]

\* C1: every candidate whose rate after the trade was evaluated below the
\* target rate ends the call with the Overshoot error at that candidate, and a
\* returned value is the last candidate evaluated, with a rate at or above the
\* target rate.
C1_OvershootNeverReturned ==
    /\ \A i \in 1..Len(evaluated) :
         evaluated[i].rate < target_rate
         => /\ i = Len(evaluated)
            /\ Returned
            /\ result = Err("Overshoot")
    /\ result.kind = "Ok"
       => /\ Len(evaluated) >= 1
          /\ LastEvaluated.base = result.value
          /\ LastEvaluated.rate >= target_rate

\* The final validation found the last candidate below the target rate.
C1_Witness ==
    /\ path = "final"
    /\ result = Err("Overshoot")
    /\ iterations >= 1
    /\ LastEvaluated.rate < target_rate

\* C2: when the solver succeeds with x and the long of x is opened,
\* solvency_after_long(x, open_long(x), checkpoint_exposure) is defined.
C2_ReturnedAmountIsSolvent ==
    (pc = "Applied" /\ result.kind = "Ok" /\ applied.opened
        /\ applied.amount = result.value)
    => applied.solvent

\* C3: with_budget returns min(x, budget) when the solver succeeds with x, and
\* the solver's failure unchanged otherwise.
C3_BudgetClamp ==
    pc \in {"Done", "Applied"}
    => IF result.kind = "Ok"
       THEN /\ budget_result.kind = "Ok"
            /\ budget_result.value <= result.value
            /\ budget_result.value <= budget
            /\ budget_result.value \in {result.value, budget}
       ELSE budget_result = result

\* The solver found more than the budget.
C3_Witness ==
    /\ pc = "Done"
    /\ result.kind = "Ok"
    /\ budget < result.value
    /\ budget_result = Ok(budget)

TypedFailures == {"Overshoot", "Insolvent", "ExcessiveLoss", "UndefinedDerivative"}

\* C5: every call ends Converged or Failed with one of the four reasons; in
\* particular a call in which calculate_open_long answered None for a candidate
\* ends in one of those failures.  (The formula is the particular case.)
C5_OpenLongNoneIsTypedFailure ==
    (pc = "Returned" /\ \E p \in calculate_open_long : p[2] = {})
    => (result.kind = "Err" /\ result.reason \in TypedFailures)

EstimateAt == <<target_base_delta, target_bond_delta>>

\* The one-shot estimate was evaluated, is solvent, and its rate error is
\* below the allowable error.
EstimateGoodEnough ==
    /\ pc \notin {"Initial", "CheckInitialGuess"}
    /\ path # "estimate"
    /\ Known(spot_price_after_long, EstimateAt)
    /\ Known(solvency_after_long, EstimateAt)
    /\ Answer(solvency_after_long, EstimateAt)
    /\ LET r == rate_after_long(Answer(spot_price_after_long, EstimateAt))
           tolerance == IF maybe_allowable_error = {} THEN ONE \div 10000
                        ELSE Unwrap(maybe_allowable_error)
       IN  /\ r.kind = "Ok"
           /\ r.value >= target_rate
           /\ r.value - target_rate < tolerance

\* C6: a solvent one-shot estimate within the allowable error is returned as
\* it is, whatever max_iterations is (0 included): the loop is not entered, and
\* neither calculate_open_long nor the derivative is evaluated.
C6_ZeroIterationShortcut ==
    EstimateGoodEnough
    => /\ result = Ok(target_base_delta)
       /\ path = "initial"
       /\ iterations = 0
       /\ open_long_calls = 0
       /\ derivative_calls = 0

\* The shortcut taken by a call with the default of seven iterations.
C6_Witness ==
    /\ EstimateGoodEnough
    /\ pc = "Returned"
    /\ maybe_max_iterations = {}
    /\ target_base_delta > 0

\* C7: when the budget binds (the solver found x, budget < x, the budget is
\* returned and spent), the pool's rate after the long is at or below the
\* target rate.
C7_BudgetBoundRateAtMostTarget ==
    (pc = "Applied" /\ result.kind = "Ok" /\ budget < result.value
        /\ budget_result = Ok(budget) /\ applied.opened /\ applied.rate.kind = "Ok")
    => applied.rate.value <= target_rate

IterationCap == IF maybe_max_iterations = {} THEN 7 ELSE Unwrap(maybe_max_iterations)

\* Strictly smaller after every step of a call.
Measure ==
    CASE pc = "Initial" -> IterationCap + 5
      [] pc = "CheckInitialGuess" -> IterationCap + 4
      [] pc = "Iterating" -> (IterationCap - iterations) + 3
      [] pc = "Returned" -> 2
      [] pc = "Done" -> 1
      [] OTHER -> 0

\* C9: a call performs at most N Newton updates, N being max_iterations or 7,
\* and ends; when the N iterations are used up without a return, the next step
\* is the final validation of the candidate of the N-th update (of the initial
\* guess when N = 0), which returns that candidate or fails.
C9_IterationCapThenFinalValidation ==
    /\ [](/\ iterations <= IterationCap
          /\ derivative_calls <= iterations
          /\ Measure >= 0
          /\ path = "final" => iterations = IterationCap
          /\ path = "loop" => iterations <= IterationCap)
    /\ [][/\ Measure' < Measure
          /\ (pc = "Iterating" /\ iterations = IterationCap)
             => /\ pc' = "Returned"
                /\ path' = "final"
                /\ iterations' = iterations
                /\ possible_target_base_delta' = possible_target_base_delta
                /\ result'.kind = "Ok" => result'.value = possible_target_base_delta
          /\ (pc = "Iterating" /\ iterations < IterationCap)
             => /\ iterations' = iterations + 1
                /\ path' \in {"none", "loop"}]_vars

\* The candidate of the only update of a call with max_iterations = 1 passed
\* the final validation.
C9_Witness ==
    /\ maybe_max_iterations = {1}
    /\ iterations = 1
    /\ path = "final"
    /\ result = Ok(possible_target_base_delta)
    /\ possible_target_base_delta > target_base_delta

\* What the final validation saw of the last candidate.
FinalBonds == Answer(calculate_open_long, possible_target_base_delta)
FinalAt == <<possible_target_base_delta, Unwrap(FinalBonds)>>
FinalSolvent == Answer(solvency_after_long, FinalAt)
FinalRate == rate_after_long(Answer(spot_price_after_long, FinalAt))
FinalTolerance ==
    IF maybe_allowable_error = {} THEN ONE \div 10000 ELSE Unwrap(maybe_allowable_error)

\* C10 as stated: Insolvent, else Overshoot, else ExcessiveLoss when the loss
\* exceeds the allowable error, else Converged; a loss equal to the allowable
\* error is Converged.
C10_LossEqualToErrorConverges ==
    (path = "final" /\ FinalBonds # {})
    => IF ~FinalSolvent THEN result = Err("Insolvent")
       ELSE FinalRate.kind = "Ok"
            => IF FinalRate.value < target_rate THEN result = Err("Overshoot")
               ELSE IF FinalRate.value - target_rate > FinalTolerance
               THEN result = Err("ExcessiveLoss")
               ELSE result = Ok(possible_target_base_delta)

\* C10 amended: Insolvent, else Overshoot, else ExcessiveLoss when the loss is
\* greater than or equal to the allowable error, else Converged; a loss equal
\* to the allowable error is ExcessiveLoss.
C10_FinalValidationOrder ==
    (path = "final" /\ FinalBonds # {})
    => IF ~FinalSolvent THEN result = Err("Insolvent")
       ELSE FinalRate.kind = "Ok"
            => IF FinalRate.value < target_rate THEN result = Err("Overshoot")
               ELSE IF FinalRate.value - target_rate >= FinalTolerance
               THEN result = Err("ExcessiveLoss")
               ELSE result = Ok(possible_target_base_delta)

\* The final validation of a solvent candidate whose loss equals the allowable
\* error.
C10_Witness ==
    /\ path = "final"
    /\ FinalBonds # {}
    /\ FinalSolvent
    /\ FinalRate.kind = "Ok"
    /\ FinalRate.value >= target_rate
    /\ FinalRate.value - target_rate = FinalTolerance
    /\ result = Err("ExcessiveLoss")

\* The entries of evaluated the loop made: the first is the initial guess's,
\* and one after the loop's is the final validation's.
LoopEntries ==
    {i \in 2..Len(evaluated) : i <= iterations + 1}

\* The point the loop evaluated a candidate at, and what it saw there.
LoopAt(base) == <<base, Unwrap(Answer(calculate_open_long, base))>>
LoopSolvent(base) == Answer(solvency_after_long, LoopAt(base))
Tolerance ==
    IF maybe_allowable_error = {} THEN ONE \div 10000 ELSE Unwrap(maybe_allowable_error)
LoopConverged(e) ==
    LoopSolvent(e.base) /\ e.rate - target_rate < Tolerance

\* C11: the loop evaluates the derivative only for a candidate that passed the
\* overshoot guard and did not converge; when the derivative is undefined for
\* it, the call fails there with UndefinedDerivative: that iteration is the
\* last and no value is returned.
C11_UndefinedDerivativeFails ==
    /\ derivative_calls <= Cardinality(LoopEntries)
    /\ \A p \in price_after_long_derivative :
         /\ \E i \in LoopEntries :
              /\ evaluated[i].base = p[1]
              /\ evaluated[i].rate >= target_rate
              /\ ~LoopConverged(evaluated[i])
         /\ p[2] = {}
            => /\ Returned
               /\ result = Err("UndefinedDerivative")
               /\ path = "loop"
               /\ possible_target_base_delta = p[1]
               /\ LastEvaluated.base = p[1]
               /\ Len(evaluated) = iterations + 1
               /\ derivative_calls = iterations

\* The derivative was undefined for the candidate of the first Newton update.
C11_Witness ==
    /\ result = Err("UndefinedDerivative")
    /\ iterations >= 2
    /\ possible_target_base_delta > target_base_delta
    /\ <<possible_target_base_delta, {}>> \in price_after_long_derivative

\* The loop went on after its i-th entry of evaluated, with a Newton update.
UpdatedAfter(i) ==
    i < Len(evaluated) \/ pc = "Iterating" \/ iterations > i - 1 \/ path = "final"

\* The candidate that followed the i-th entry of evaluated.
CandidateAfter(i) ==
    IF i < Len(evaluated) THEN evaluated[i + 1].base ELSE possible_target_base_delta

\* The negated derivative of the rate at a candidate of the loop.
NegatedDerivativeAt(base) ==
    LET p == Unwrap(Answer(spot_price_after_long, LoopAt(base)))
        pd == Unwrap(Answer(price_after_long_derivative, base))
    IN  (pd * ONE) \div ((((annualized_position_duration * p) \div ONE) * p) \div ONE)

\* C12: a Newton step replaces the candidate by candidate + loss /
\* negated_derivative, with loss = rate - target >= 0 and negated_derivative >=
\* 0; the candidates of a call never decrease, and every candidate and every
\* returned value is at least the one-shot initial guess.
C12_CandidatesNeverDecrease ==
    /\ \A i, j \in 1..Len(evaluated) : i <= j => evaluated[i].base <= evaluated[j].base
    /\ Len(evaluated) >= 1 => evaluated[1].base = target_base_delta
    /\ pc = "Iterating" => possible_target_base_delta >= target_base_delta
    /\ path \in {"loop", "final"} => possible_target_base_delta >= target_base_delta
    /\ result.kind = "Ok" => result.value >= target_base_delta
    /\ \A i \in LoopEntries :
         UpdatedAfter(i)
         => LET loss == evaluated[i].rate - target_rate
                d == NegatedDerivativeAt(evaluated[i].base)
            IN  /\ loss >= 0
                /\ d >= 0
                /\ CandidateAfter(i) = evaluated[i].base + (loss * ONE) \div d

\* The loop returned a candidate above the initial guess.
C12_Witness ==
    /\ result.kind = "Ok"
    /\ path = "loop"
    /\ result.value > target_base_delta
    /\ \E i \in LoopEntries : UpdatedAfter(i) /\ CandidateAfter(i) > evaluated[i].base

\* The initial-guess check found the one-shot estimate insolvent.
EstimateInsolvent ==
    /\ pc \notin {"Initial", "CheckInitialGuess"}
    /\ path # "estimate"
    /\ Known(solvency_after_long, EstimateAt)
    /\ ~Answer(solvency_after_long, EstimateAt)

\* The i-th entry of evaluated passed the overshoot guard and is insolvent.
InsolventInLoop(i) ==
    /\ evaluated[i].rate >= target_rate
    /\ ~LoopSolvent(evaluated[i].base)

\* The call returned from the loop iteration that made the i-th entry.
ReturnedAtEntry(i) ==
    Returned /\ path = "loop" /\ i = Len(evaluated) /\ iterations = i - 1

InsolventOnlyFromFinal ==
    result = Err("Insolvent")
    => /\ path = "final"
       /\ iterations = IterationCap
       /\ FinalBonds # {}
       /\ ~FinalSolvent

InsolventNeverReturned ==
    /\ (result.kind = "Ok" /\ path = "initial") => Answer(solvency_after_long, EstimateAt)
    /\ (result.kind = "Ok" /\ path = "loop") => LoopSolvent(result.value)

====
